---- MODULE Spec2Model ----
(***************************************************************************)
(* A model of tiny_vfs (src/tiny_vfs.h): the mount table of tinyvfs::Vfs,  *)
(* the path helpers of namespace detail, and the overlay operations        *)
(* mount, mount_disk, unmount, exists_file, exists_dir, read_file,         *)
(* read_text, write_file, list_files and list_dirs.                        *)
(*                                                                         *)
(* Strings are sequences of one-character strings, so that the prefix and  *)
(* separator tests of the code are computed character by character:        *)
(* "a/b" is <<"a", "/", "b">> and "" is << >>.                             *)
(***************************************************************************)
EXTENDS Integers, Sequences, FiniteSets, TLC

VARIABLES mounts, files, last

vars == <<mounts, files, last>>

(***************************************************************************)
(* Bounds of the model.                                                    *)
(***************************************************************************)
MaxMounts == 3
\* the mounts made with mount_disk
MaxDiskMounts == 2

(***************************************************************************)
(* String helpers (std::string / std::string_view members used by the code)*)
(***************************************************************************)
Slash == "/"
Dot == "."

Range(seq) == {seq[i] : i \in 1..Len(seq)}

\* s.substr(from) with a 1-based index: the characters from..Len(s)
SubstrFrom(s, from) == SubSeq(s, from, Len(s))

\* s.compare(0, Len(pre), pre) == 0 for Len(s) >= Len(pre)
StartsWith(s, pre) ==
    /\ Len(s) >= Len(pre)
    /\ SubSeq(s, 1, Len(pre)) = pre

\* s.find('/') as a 1-based index, 0 for npos
RECURSIVE FindFrom(_, _, _)
FindFrom(s, c, i) ==
    IF i > Len(s) THEN 0
    ELSE IF s[i] = c THEN i
    ELSE FindFrom(s, c, i + 1)

FindChar(s, c) == FindFrom(s, c, 1)

\* s.substr(0, split) where split is the result of find (npos: the whole string)
UpTo(s, split) == IF split = 0 THEN s ELSE SubSeq(s, 1, split - 1)

\* the segments of a generic-format path: the pieces between slashes,
\* empty pieces included
RECURSIVE SplitFrom(_, _, _)
SplitFrom(s, i, cur) ==
    IF i > Len(s) THEN <<cur>>
    ELSE IF s[i] = Slash THEN <<cur>> \o SplitFrom(s, i + 1, << >>)
    ELSE SplitFrom(s, i + 1, Append(cur, s[i]))

Split(s) == SplitFrom(s, 1, << >>)

RECURSIVE Join(_)
Join(segs) ==
    IF Len(segs) = 0 THEN << >>
    ELSE IF Len(segs) = 1 THEN segs[1]
    ELSE segs[1] \o <<Slash>> \o Join(Tail(segs))

DotSeg == <<Dot>>
DotDotSeg == <<Dot, Dot>>

(***************************************************************************)
(* detail::normalize_virtual_path                                          *)
(***************************************************************************)
\* the letters of the paths of the model
Letters == {"a", "b", "d", "e", "h", "t", "u", "x"}
Colon == ":"

\* fs::path::has_root_name() in the MSVC build the repository's build script
\* targets: a drive designator "X:", or two slashes and a server name
\* ("//server"); a path without ':' that does not start with two slashes
\* has no root name on any platform.
HasRootName(input) ==
    \/ /\ Len(input) >= 2
       /\ input[1] \in Letters
       /\ input[2] = Colon
    \/ /\ Len(input) >= 3
       /\ input[1] = Slash
       /\ input[2] = Slash
       /\ input[3] # Slash

\* fs::path::has_root_directory(): the path starts with a separator
HasRootDirectory(input) ==
    /\ Len(input) >= 1
    /\ input[1] = Slash

\* fs::path::lexically_normal() on the filenames of the path: "." and empty
\* pieces are dropped, "name/.." pairs are removed, a ".." directly below
\* the root directory is removed, other ".." stay.
RECURSIVE Collapse(_, _, _)
Collapse(segs, rooted, acc) ==
    IF Len(segs) = 0 THEN acc
    ELSE LET s == Head(segs)
             rest == Tail(segs)
         IN IF s = << >> \/ s = DotSeg THEN Collapse(rest, rooted, acc)
            ELSE IF s = DotDotSeg
                 THEN IF Len(acc) > 0 /\ acc[Len(acc)] # DotDotSeg
                      THEN Collapse(rest, rooted, SubSeq(acc, 1, Len(acc) - 1))
                      ELSE IF rooted THEN Collapse(rest, rooted, acc)
                      ELSE Collapse(rest, rooted, Append(acc, s))
            ELSE Collapse(rest, rooted, Append(acc, s))

LexicallyNormal(input) == Collapse(Split(input), HasRootDirectory(input), << >>)

\* a variant of normalize_virtual_path that also rejects a path with a root
\* directory
normalize_rejects_root_directory(input) ==
    IF HasRootName(input) \/ HasRootDirectory(input) THEN [ok |-> FALSE, out |-> << >>]
    ELSE LET parts == LexicallyNormal(input)
         IN IF \E i \in 1..Len(parts) : parts[i] = DotDotSeg
            THEN [ok |-> FALSE, out |-> << >>]
            ELSE [ok |-> TRUE, out |-> Join(parts)]

\* [ok |-> the bool returned, out |-> the string stored in out]
\* The leading/trailing slashes and the lone "." of the generic string are
\* stripped by the code, which leaves the filenames joined by "/".
normalize_virtual_path(input) ==
    IF HasRootName(input) THEN [ok |-> FALSE, out |-> << >>]
    ELSE LET parts == LexicallyNormal(input)
         IN IF \E i \in 1..Len(parts) : parts[i] = DotDotSeg
            THEN [ok |-> FALSE, out |-> << >>]
            ELSE [ok |-> TRUE, out |-> Join(parts)]

(***************************************************************************)
(* detail::relative_to_mount                                               *)
(***************************************************************************)
\* a variant of relative_to_mount that compares the characters only and does
\* not ask for the slash after mount
relative_to_mount_char_prefix(full, mount) ==
    IF mount = << >> THEN [ok |-> TRUE, out |-> full]
    ELSE IF full = mount THEN [ok |-> TRUE, out |-> << >>]
    ELSE IF Len(full) > Len(mount) /\ StartsWith(full, mount)
         THEN [ok |-> TRUE, out |-> SubstrFrom(full, Len(mount) + 2)]
    ELSE [ok |-> FALSE, out |-> << >>]

relative_to_mount(full, mount) ==
    IF mount = << >> THEN [ok |-> TRUE, out |-> full]
    ELSE IF full = mount THEN [ok |-> TRUE, out |-> << >>]
    ELSE IF /\ Len(full) > Len(mount)
            /\ StartsWith(full, mount)
            /\ full[Len(mount) + 1] = Slash
         THEN [ok |-> TRUE, out |-> SubstrFrom(full, Len(mount) + 2)]
    ELSE [ok |-> FALSE, out |-> << >>]

(***************************************************************************)
(* detail::child_mount_name                                                *)
(***************************************************************************)
\* a variant of child_mount_name that hands out all of the prefix below
\* parent instead of its first segment
child_mount_name_whole(parent, mount) ==
    IF mount = << >> THEN [ok |-> FALSE, out |-> << >>]
    ELSE IF parent = << >> THEN [ok |-> TRUE, out |-> mount]
    ELSE IF Len(mount) <= Len(parent) THEN [ok |-> FALSE, out |-> << >>]
    ELSE IF ~StartsWith(mount, parent) \/ mount[Len(parent) + 1] # Slash
         THEN [ok |-> FALSE, out |-> << >>]
    ELSE [ok |-> TRUE, out |-> SubstrFrom(mount, Len(parent) + 2)]

\* a variant of child_mount_name that does not compare mount with parent and
\* hands out the segment of any longer prefix after Len(parent) + 1 characters
child_mount_name_unrelated(parent, mount) ==
    IF mount = << >> THEN [ok |-> FALSE, out |-> << >>]
    ELSE IF parent = << >>
         THEN [ok |-> TRUE, out |-> UpTo(mount, FindChar(mount, Slash))]
    ELSE IF Len(mount) <= Len(parent) + 1 THEN [ok |-> FALSE, out |-> << >>]
    ELSE LET rest == SubstrFrom(mount, Len(parent) + 2)
         IN [ok |-> TRUE, out |-> UpTo(rest, FindChar(rest, Slash))]

child_mount_name(parent, mount) ==
    IF mount = << >> THEN [ok |-> FALSE, out |-> << >>]
    ELSE IF parent = << >>
         THEN [ok |-> TRUE, out |-> UpTo(mount, FindChar(mount, Slash))]
    ELSE IF Len(mount) <= Len(parent) THEN [ok |-> FALSE, out |-> << >>]
    ELSE IF ~StartsWith(mount, parent) \/ mount[Len(parent) + 1] # Slash
         THEN [ok |-> FALSE, out |-> << >>]
    ELSE LET rest == SubstrFrom(mount, Len(parent) + 2)
         IN [ok |-> TRUE, out |-> UpTo(rest, FindChar(rest, Slash))]

(***************************************************************************)
(* detail::extension_matches                                               *)
(***************************************************************************)
EntryMatches(ext, entry) ==
    IF entry = << >> THEN FALSE
    ELSE IF entry[1] = Dot THEN ext = entry
    ELSE /\ Len(ext) = Len(entry) + 1
         /\ ext[1] = Dot
         /\ SubstrFrom(ext, 2) = entry

\* a variant of extension_matches in which a token without a dot also matches
\* an extension that is the token itself
extension_matches_bare(ext, extensions) ==
    \/ Len(extensions) = 0
    \/ \E i \in 1..Len(extensions) :
         EntryMatches(ext, extensions[i]) \/ (extensions[i] # << >> /\ ext = extensions[i])

extension_matches(ext, extensions) ==
    \/ Len(extensions) = 0
    \/ \E i \in 1..Len(extensions) : EntryMatches(ext, extensions[i])

(***************************************************************************)
(* Result, Blob and the values of the model                                *)
(***************************************************************************)
Ok == "ok"
NotFound == "not_found"
IoError == "io_error"
NotSupported == "not_supported"
InvalidPath == "invalid_path"

\* std::nullopt of std::optional<Blob>; a null std::shared_ptr<Backend>
NoBlob == "nullopt"
NullBackend == 0

\* what a field of the record of the last call holds when the call has no such value
NoValue == "none"

Backends == {1, 2}

\* file and directory names of the test tree (h.t: hello.txt, e.t: the
\* overlay's extra file, d.u: data.bin)
HelloTxt == <<"h", Dot, "t">>
ExtraTxt == <<"e", Dot, "t">>
DataBin == <<"d", Dot, "u">>
PA == <<"a">>
PAB == <<"a", Slash, "b">>
PB == <<"b">>

(***************************************************************************)
(* Backend: an in-memory implementation of the six operations of the       *)
(* interface.  files[b] maps the relative paths of the regular files of    *)
(* backend b to their content; a directory exists when a file lies below   *)
(* it.  What a backend answers to a write or to an enumeration beyond that *)
(* is the choice of the backend: it is an input of the call (wr, fail).    *)
(***************************************************************************)
Backend_exists_file(fs, b, path) == path \in DOMAIN fs[b]

Backend_exists_dir(fs, b, path) ==
    \E f \in DOMAIN fs[b] : f # path /\ relative_to_mount(f, path).ok

Backend_read_file(fs, b, path) ==
    IF path \in DOMAIN fs[b] THEN fs[b][path] ELSE NoBlob

\* a variant of the backend that answers a write without keeping the data
Backend_store_discarding(fs, b, path, data) == fs

\* the files of the backends after backend b stored data at path
Backend_store(fs, b, path, data) ==
    [fs EXCEPT ![b] = [f \in (DOMAIN fs[b]) \cup {path} |->
                          IF f = path THEN data ELSE fs[b][f]]]

\* fs::path::extension() of a filename: from its last dot, unless the dot
\* is the first character
RECURSIVE LastDot(_, _)
LastDot(name, i) ==
    IF i <= 1 THEN 0
    ELSE IF name[i] = Dot THEN i
    ELSE LastDot(name, i - 1)

Extension(name) ==
    LET d == LastDot(name, Len(name))
    IN IF d = 0 THEN << >> ELSE SubstrFrom(name, d)

\* the order in which a backend enumerates the names of a directory: this
\* one or, with rev, the opposite one
NameOrder == <<HelloTxt, ExtraTxt, DataBin, PA, PB>>

Reverse(s) == [i \in 1..Len(s) |-> s[Len(s) + 1 - i]]

InOrder(names, rev) ==
    LET o == IF rev THEN Reverse(NameOrder) ELSE NameOrder
    IN SelectSeq(o, LAMBDA n : n \in names)

\* the regular files directly in directory path that pass the filter
FileNamesIn(fs, b, path, extensions) ==
    {relative_to_mount(f, path).out : f \in
        {g \in DOMAIN fs[b] :
            /\ g # path
            /\ relative_to_mount(g, path).ok
            /\ FindChar(relative_to_mount(g, path).out, Slash) = 0
            /\ extension_matches(Extension(relative_to_mount(g, path).out), extensions)}}

\* the subdirectories directly in directory path
DirNamesIn(fs, b, path) ==
    {UpTo(relative_to_mount(f, path).out, FindChar(relative_to_mount(f, path).out, Slash)) :
        f \in {g \in DOMAIN fs[b] :
            /\ g # path
            /\ relative_to_mount(g, path).ok
            /\ FindChar(relative_to_mount(g, path).out, Slash) # 0}}

\* fail: "none" (enumerate, ok), "io_first" (io_error before any name),
\* "io_mid" (io_error after the first name), "not_supported"
FailModes == {"none", "io_first", "io_mid", NotSupported}

Enumerate(names, fail) ==
    IF fail = NotSupported THEN [res |-> NotSupported, names |-> << >>]
    ELSE IF fail = "io_first" THEN [res |-> IoError, names |-> << >>]
    ELSE IF fail = "io_mid"
         THEN [res |-> IoError, names |-> SubSeq(names, 1, IF Len(names) > 0 THEN 1 ELSE 0)]
    ELSE [res |-> Ok, names |-> names]

Backend_list_files(fs, b, path, extensions, fail, rev) ==
    IF ~Backend_exists_dir(fs, b, path) THEN [res |-> NotFound, names |-> << >>]
    ELSE Enumerate(InOrder(FileNamesIn(fs, b, path, extensions), rev), fail)

Backend_list_dirs(fs, b, path, fail, rev) ==
    IF ~Backend_exists_dir(fs, b, path) THEN [res |-> NotFound, names |-> << >>]
    ELSE Enumerate(InOrder(DirNamesIn(fs, b, path), rev), fail)

(***************************************************************************)
(* Vfs: the mount table and the operations                                 *)
(* A mount table ms is a sequence of MountPoint records                    *)
(* [mount |-> prefix, backend |-> b], oldest first (mounts_).              *)
(***************************************************************************)
MountPoint(prefix, b) == [mount |-> prefix, backend |-> b]

\* one call of a backend made by an operation: the index of the mount in
\* the table, its backend, the relative path handed over, the answer
Call(i, b, rel, res) == [idx |-> i, backend |-> b, rel |-> rel, res |-> res]

\* a variant of mount that rebinds a prefix that is already mounted instead
\* of adding a second entry for it
mount_rebinding(ms, path, backend) ==
    LET n == normalize_virtual_path(path)
    IN IF backend = NullBackend \/ ~n.ok THEN [n |-> n, ret |-> FALSE, mounts |-> ms]
       ELSE IF \E i \in 1..Len(ms) : ms[i].mount = n.out
            THEN [n |-> n, ret |-> TRUE,
                  mounts |-> [i \in 1..Len(ms) |->
                                 IF ms[i].mount = n.out THEN MountPoint(n.out, backend)
                                 ELSE ms[i]]]
       ELSE [n |-> n, ret |-> TRUE, mounts |-> Append(ms, MountPoint(n.out, backend))]

\* Vfs::mount
mount(ms, path, backend) ==
    LET n == normalize_virtual_path(path)
    IN IF backend = NullBackend THEN [n |-> n, ret |-> FALSE, mounts |-> ms]
       ELSE IF ~n.ok THEN [n |-> n, ret |-> FALSE, mounts |-> ms]
       ELSE [n |-> n, ret |-> TRUE, mounts |-> Append(ms, MountPoint(n.out, backend))]

\* the loop of Vfs::unmount: erase at i, or step over i
RECURSIVE UnmountLoop(_, _, _, _)
UnmountLoop(ms, normalized, i, removed) ==
    IF i > Len(ms) THEN [ret |-> removed, mounts |-> ms]
    ELSE IF ms[i].mount = normalized
         THEN UnmountLoop(SubSeq(ms, 1, i - 1) \o SubSeq(ms, i + 1, Len(ms)),
                          normalized, i, TRUE)
         ELSE UnmountLoop(ms, normalized, i + 1, removed)

\* a variant of unmount that erases the newest mount of the prefix only
unmount_last_only(ms, path) ==
    LET n == normalize_virtual_path(path)
        hit == {i \in 1..Len(ms) : ms[i].mount = n.out}
    IN IF ~n.ok \/ hit = {} THEN [n |-> n, ret |-> FALSE, mounts |-> ms]
       ELSE LET i == CHOOSE j \in hit : \A k \in hit : k <= j
            IN [n |-> n, ret |-> TRUE,
                mounts |-> SubSeq(ms, 1, i - 1) \o SubSeq(ms, i + 1, Len(ms))]

\* a variant of unmount that erases the mounts at and below the prefix
unmount_nested(ms, path) ==
    LET n == normalize_virtual_path(path)
        kept == SelectSeq(ms, LAMBDA m : ~relative_to_mount(m.mount, n.out).ok)
    IN IF ~n.ok THEN [n |-> n, ret |-> FALSE, mounts |-> ms]
       ELSE [n |-> n, ret |-> Len(kept) < Len(ms), mounts |-> kept]

\* Vfs::unmount
unmount(ms, path) ==
    LET n == normalize_virtual_path(path)
    IN IF ~n.ok THEN [n |-> n, ret |-> FALSE, mounts |-> ms]
       ELSE [n |-> n] @@ UnmountLoop(ms, n.out, 1, FALSE)

\* the loop of Vfs::read_file over mounts_.rbegin()..rend(): i runs from
\* Len(ms) down to 1
RECURSIVE ReadLoop(_, _, _, _, _)
ReadLoop(ms, fs, normalized, i, calls) ==
    IF i = 0 THEN [blob |-> NoBlob, calls |-> calls]
    ELSE LET r == relative_to_mount(normalized, ms[i].mount)
         IN IF ~r.ok THEN ReadLoop(ms, fs, normalized, i - 1, calls)
            ELSE LET data == Backend_read_file(fs, ms[i].backend, r.out)
                     log == Append(calls, Call(i, ms[i].backend, r.out, data))
                 IN IF data # NoBlob THEN [blob |-> data, calls |-> log]
                    ELSE ReadLoop(ms, fs, normalized, i - 1, log)

\* a variant of read_file that walks mounts_ from begin() to end(), the
\* oldest mount first
read_file_oldest_first(ms, fs, path) ==
    LET n == normalize_virtual_path(path)
    IN IF ~n.ok THEN [n |-> n, blob |-> NoBlob, calls |-> << >>]
       ELSE [n |-> n] @@ ReadLoop([i \in 1..Len(ms) |-> ms[Len(ms) + 1 - i]], fs, n.out,
                                  Len(ms), << >>)

\* a variant of read_file that prefers the mount with the longest prefix
\* among those that hold the file, and the newest one among equals
read_file_longest_prefix(ms, fs, path) ==
    LET n == normalize_virtual_path(path)
        holds == {i \in 1..Len(ms) :
                     /\ relative_to_mount(n.out, ms[i].mount).ok
                     /\ Backend_read_file(fs, ms[i].backend,
                                          relative_to_mount(n.out, ms[i].mount).out) # NoBlob}
    IN IF ~n.ok \/ holds = {} THEN read_file_oldest_first(ms, fs, path)
       ELSE LET i == CHOOSE j \in holds : \A k \in holds :
                         \/ Len(ms[k].mount) < Len(ms[j].mount)
                         \/ Len(ms[k].mount) = Len(ms[j].mount) /\ k <= j
                rel == relative_to_mount(n.out, ms[i].mount).out
                data == Backend_read_file(fs, ms[i].backend, rel)
            IN [n |-> n, blob |-> data, calls |-> <<Call(i, ms[i].backend, rel, data)>>]

\* Vfs::read_file
read_file(ms, fs, path) ==
    LET n == normalize_virtual_path(path)
    IN IF ~n.ok THEN [n |-> n, blob |-> NoBlob, calls |-> << >>]
       ELSE [n |-> n] @@ ReadLoop(ms, fs, n.out, Len(ms), << >>)

\* Vfs::mount_disk: the backend is a SubtreeBackend over a DiskBackend rooted
\* at root; the tree below root r is files[r], so that the backend made for
\* root r is backend r
mount_disk(ms, path, root) ==
    LET backend == root
    IN mount(ms, path, backend)

\* the loop of Vfs::exists_file over mounts_.rbegin()..rend()
RECURSIVE ExistsFileLoop(_, _, _, _, _)
ExistsFileLoop(ms, fs, normalized, i, calls) ==
    IF i = 0 THEN [ret |-> FALSE, calls |-> calls]
    ELSE LET r == relative_to_mount(normalized, ms[i].mount)
         IN IF ~r.ok THEN ExistsFileLoop(ms, fs, normalized, i - 1, calls)
            ELSE LET found == Backend_exists_file(fs, ms[i].backend, r.out)
                     log == Append(calls, Call(i, ms[i].backend, r.out, found))
                 IN IF found THEN [ret |-> TRUE, calls |-> log]
                    ELSE ExistsFileLoop(ms, fs, normalized, i - 1, log)

\* a variant of exists_file that goes on with the empty path when the
\* normalization fails
exists_file_unchecked(ms, fs, path) ==
    LET n == normalize_virtual_path(path)
    IN [n |-> n] @@ ExistsFileLoop(ms, fs, n.out, Len(ms), << >>)

\* a variant of exists_file that asks the newest matching mount only
RECURSIVE exists_file_newest_only(_, _, _)
exists_file_newest_only(ms, fs, path) ==
    LET n == normalize_virtual_path(path)
    IN IF ~n.ok \/ Len(ms) = 0 THEN [n |-> n, ret |-> FALSE, calls |-> << >>]
       ELSE LET r == relative_to_mount(n.out, ms[Len(ms)].mount)
            IN IF ~r.ok
               THEN LET older == exists_file_newest_only(SubSeq(ms, 1, Len(ms) - 1), fs, path)
                    IN [n |-> n, ret |-> older.ret, calls |-> older.calls]
               ELSE LET found == Backend_exists_file(fs, ms[Len(ms)].backend, r.out)
                    IN [n |-> n, ret |-> found,
                        calls |-> <<Call(Len(ms), ms[Len(ms)].backend, r.out, found)>>]

\* Vfs::exists_file
exists_file(ms, fs, path) ==
    LET n == normalize_virtual_path(path)
    IN IF ~n.ok THEN [n |-> n, ret |-> FALSE, calls |-> << >>]
       ELSE [n |-> n] @@ ExistsFileLoop(ms, fs, n.out, Len(ms), << >>)

\* the first loop of Vfs::exists_dir: a mount at normalized, or a mount whose
\* prefix goes on with a slash after normalized
ImpliedByMount(ms, normalized) ==
    \E i \in 1..Len(ms) :
        \/ ms[i].mount = normalized
        \/ /\ Len(ms[i].mount) > Len(normalized)
           /\ StartsWith(ms[i].mount, normalized)
           /\ ms[i].mount[Len(normalized) + 1] = Slash

\* the second loop of Vfs::exists_dir over mounts_.rbegin()..rend()
RECURSIVE ExistsDirLoop(_, _, _, _, _)
ExistsDirLoop(ms, fs, normalized, i, calls) ==
    IF i = 0 THEN [ret |-> FALSE, calls |-> calls]
    ELSE LET r == relative_to_mount(normalized, ms[i].mount)
         IN IF ~r.ok THEN ExistsDirLoop(ms, fs, normalized, i - 1, calls)
            ELSE LET found == Backend_exists_dir(fs, ms[i].backend, r.out)
                     log == Append(calls, Call(i, ms[i].backend, r.out, found))
                 IN IF found THEN [ret |-> TRUE, calls |-> log]
                    ELSE ExistsDirLoop(ms, fs, normalized, i - 1, log)

\* a variant of exists_dir whose first loop compares the characters only and
\* does not ask for the slash after normalized
exists_dir_char_prefix(ms, fs, path) ==
    LET n == normalize_virtual_path(path)
    IN IF ~n.ok THEN [n |-> n, ret |-> FALSE, calls |-> << >>]
       ELSE IF n.out = << >> THEN [n |-> n, ret |-> Len(ms) > 0, calls |-> << >>]
       ELSE IF \E i \in 1..Len(ms) : StartsWith(ms[i].mount, n.out)
            THEN [n |-> n, ret |-> TRUE, calls |-> << >>]
       ELSE [n |-> n] @@ ExistsDirLoop(ms, fs, n.out, Len(ms), << >>)

\* Vfs::exists_dir
exists_dir(ms, fs, path) ==
    LET n == normalize_virtual_path(path)
    IN IF ~n.ok THEN [n |-> n, ret |-> FALSE, calls |-> << >>]
       ELSE IF n.out = << >> THEN [n |-> n, ret |-> Len(ms) > 0, calls |-> << >>]
       ELSE IF ImpliedByMount(ms, n.out) THEN [n |-> n, ret |-> TRUE, calls |-> << >>]
       ELSE [n |-> n] @@ ExistsDirLoop(ms, fs, n.out, Len(ms), << >>)

\* Blob::to_string: the bytes of the blob, and a terminating '\0' with
\* append_null; a blob of the model is one byte
Nul == "\\0"

to_string(blob, append_null) ==
    IF append_null THEN <<blob, Nul>> ELSE <<blob>>

\* Vfs::read_text
read_text(ms, fs, path, append_null) ==
    LET r == read_file(ms, fs, path)
    IN IF r.blob = NoBlob THEN [n |-> r.n, text |-> NoBlob, calls |-> r.calls]
       ELSE [n |-> r.n, text |-> to_string(r.blob, append_null), calls |-> r.calls]

\* the loop of Vfs::write_file; wr[<<b, rel>>] is what backend b answers when
\* it is asked to write at rel
RECURSIVE WriteLoop(_, _, _, _, _, _, _, _, _)
WriteLoop(ms, fs, normalized, data, wr, i, matched, last_result, calls) ==
    IF i = 0
    THEN [result |-> IF ~matched THEN NotFound ELSE last_result,
          files |-> fs, calls |-> calls]
    ELSE LET r == relative_to_mount(normalized, ms[i].mount)
         IN IF ~r.ok
            THEN WriteLoop(ms, fs, normalized, data, wr, i - 1, matched, last_result, calls)
            ELSE LET b == ms[i].backend
                     result == wr[<<b, r.out>>]
                     log == Append(calls, Call(i, b, r.out, result))
                 IN IF result = Ok
                    THEN [result |-> result,
                          files |-> Backend_store(fs, b, r.out, data),
                          calls |-> log]
                    ELSE IF result = IoError
                    THEN [result |-> result, files |-> fs, calls |-> log]
                    ELSE WriteLoop(ms, fs, normalized, data, wr, i - 1, TRUE,
                                   IF result # NotSupported THEN result ELSE last_result,
                                   log)

\* variants of the loop of write_file: "full_path" hands the normalized path
\* to the backend instead of the relative one, "mask_io" goes on to the older
\* mounts after an io_error, "unmatched" leaves the matched flag out of the
\* result
RECURSIVE WriteLoopVariant(_, _, _, _, _, _, _, _, _, _)
WriteLoopVariant(ms, fs, normalized, data, wr, i, matched, last_result, calls, variant) ==
    IF i = 0
    THEN [result |-> IF ~matched /\ variant # "unmatched" THEN NotFound ELSE last_result,
          files |-> fs, calls |-> calls]
    ELSE LET r == relative_to_mount(normalized, ms[i].mount)
         IN IF ~r.ok
            THEN WriteLoopVariant(ms, fs, normalized, data, wr, i - 1, matched, last_result,
                                  calls, variant)
            ELSE LET b == ms[i].backend
                     rel == IF variant = "full_path" THEN normalized ELSE r.out
                     result == wr[<<b, r.out>>]
                     log == Append(calls, Call(i, b, rel, result))
                 IN IF result = Ok
                    THEN [result |-> result,
                          files |-> Backend_store(fs, b, rel, data),
                          calls |-> log]
                    ELSE IF result = IoError /\ variant # "mask_io"
                    THEN [result |-> result, files |-> fs, calls |-> log]
                    ELSE WriteLoopVariant(ms, fs, normalized, data, wr, i - 1, TRUE,
                                          IF result # NotSupported THEN result
                                          ELSE last_result,
                                          log, variant)

WriteFileVariant(ms, fs, path, data, wr, variant) ==
    LET n == normalize_virtual_path(path)
    IN IF ~n.ok THEN [n |-> n, result |-> InvalidPath, files |-> fs, calls |-> << >>]
       ELSE [n |-> n] @@ WriteLoopVariant(ms, fs, n.out, data, wr, Len(ms), FALSE,
                                          NotSupported, << >>, variant)

write_file_full_path(ms, fs, path, data, wr) ==
    WriteFileVariant(ms, fs, path, data, wr, "full_path")

write_file_mask_io(ms, fs, path, data, wr) ==
    WriteFileVariant(ms, fs, path, data, wr, "mask_io")

write_file_unmatched(ms, fs, path, data, wr) ==
    WriteFileVariant(ms, fs, path, data, wr, "unmatched")

\* Vfs::write_file
write_file(ms, fs, path, data, wr) ==
    LET n == normalize_virtual_path(path)
    IN IF ~n.ok THEN [n |-> n, result |-> InvalidPath, files |-> fs, calls |-> << >>]
       ELSE [n |-> n] @@ WriteLoop(ms, fs, n.out, data, wr, Len(ms), FALSE, NotSupported, << >>)

\* the emit lambda of list_files and list_dirs: st is [seen, out], seen the
\* std::unordered_set, out the names handed to the caller's callback so far
Emit(st, name, allow_duplicates) ==
    IF allow_duplicates THEN [seen |-> st.seen, out |-> Append(st.out, name)]
    ELSE IF name \notin st.seen
         THEN [seen |-> st.seen \cup {name}, out |-> Append(st.out, name)]
    ELSE st

RECURSIVE EmitAll(_, _, _)
EmitAll(st, names, allow_duplicates) ==
    IF Len(names) = 0 THEN st
    ELSE EmitAll(Emit(st, Head(names), allow_duplicates), Tail(names), allow_duplicates)

\* the loop of Vfs::list_files
RECURSIVE ListFilesLoop(_, _, _, _, _, _, _, _, _, _, _)
ListFilesLoop(ms, fs, normalized, extensions, allow_duplicates, fail, rev, i, matched, st, calls) ==
    IF i = 0
    THEN [result |-> IF matched THEN Ok ELSE NotFound, emitted |-> st.out,
          seen |-> st.seen, calls |-> calls]
    ELSE LET r == relative_to_mount(normalized, ms[i].mount)
         IN IF ~r.ok
            THEN ListFilesLoop(ms, fs, normalized, extensions, allow_duplicates, fail, rev,
                               i - 1, matched, st, calls)
            ELSE LET b == ms[i].backend
                     got == Backend_list_files(fs, b, r.out, extensions, fail[b], rev)
                     st2 == EmitAll(st, got.names, allow_duplicates)
                     log == Append(calls, Call(i, b, r.out, got))
                 IN IF got.res = IoError
                    THEN [result |-> IoError, emitted |-> st2.out, seen |-> st2.seen,
                          calls |-> log]
                    ELSE ListFilesLoop(ms, fs, normalized, extensions, allow_duplicates,
                                       fail, rev, i - 1, TRUE, st2, log)

\* variants of the loop of list_files: "newest_only" stops after the first
\* matching mount, "needs_ok" counts a mount as matched only when its backend
\* answered ok
RECURSIVE ListFilesLoopVariant(_, _, _, _, _, _, _, _, _, _, _, _)
ListFilesLoopVariant(ms, fs, normalized, extensions, allow_duplicates, fail, rev, i, matched,
                     st, calls, variant) ==
    IF i = 0 \/ (variant = "newest_only" /\ matched)
    THEN [result |-> IF matched THEN Ok ELSE NotFound, emitted |-> st.out,
          seen |-> st.seen, calls |-> calls]
    ELSE LET r == relative_to_mount(normalized, ms[i].mount)
         IN IF ~r.ok
            THEN ListFilesLoopVariant(ms, fs, normalized, extensions, allow_duplicates, fail,
                                      rev, i - 1, matched, st, calls, variant)
            ELSE LET b == ms[i].backend
                     got == Backend_list_files(fs, b, r.out, extensions, fail[b], rev)
                     st2 == EmitAll(st, got.names, allow_duplicates)
                     log == Append(calls, Call(i, b, r.out, got))
                 IN IF got.res = IoError
                    THEN [result |-> IoError, emitted |-> st2.out, seen |-> st2.seen,
                          calls |-> log]
                    ELSE ListFilesLoopVariant(ms, fs, normalized, extensions,
                                              allow_duplicates, fail, rev, i - 1,
                                              IF variant = "needs_ok"
                                              THEN matched \/ got.res = Ok ELSE TRUE,
                                              st2, log, variant)

ListFilesVariant(ms, fs, path, extensions, allow_duplicates, fail, rev, variant) ==
    LET n == normalize_virtual_path(path)
    IN IF ~n.ok
       THEN [n |-> n, result |-> InvalidPath, emitted |-> << >>, seen |-> {}, calls |-> << >>]
       ELSE [n |-> n] @@ ListFilesLoopVariant(ms, fs, n.out, extensions, allow_duplicates,
                                              fail, rev, Len(ms), FALSE,
                                              [seen |-> {}, out |-> << >>], << >>, variant)

list_files_newest_only(ms, fs, path, extensions, allow_duplicates, fail, rev) ==
    ListFilesVariant(ms, fs, path, extensions, allow_duplicates, fail, rev, "newest_only")

list_files_needs_ok(ms, fs, path, extensions, allow_duplicates, fail, rev) ==
    ListFilesVariant(ms, fs, path, extensions, allow_duplicates, fail, rev, "needs_ok")

\* a variant of list_files that walks mounts_ from begin() to end(), the
\* oldest mount first
list_files_oldest_first(ms, fs, path, extensions, allow_duplicates, fail, rev) ==
    LET n == normalize_virtual_path(path)
        r == ListFilesLoop([i \in 1..Len(ms) |-> ms[Len(ms) + 1 - i]], fs, n.out, extensions,
                           allow_duplicates, fail, rev, Len(ms), FALSE,
                           [seen |-> {}, out |-> << >>], << >>)
    IN IF ~n.ok
       THEN [n |-> n, result |-> InvalidPath, emitted |-> << >>, seen |-> {}, calls |-> << >>]
       ELSE [n |-> n, result |-> r.result, emitted |-> r.emitted, seen |-> r.seen,
             calls |-> [k \in 1..Len(r.calls) |->
                           [r.calls[k] EXCEPT !.idx = Len(ms) + 1 - r.calls[k].idx]]]

\* Vfs::list_files
list_files(ms, fs, path, extensions, allow_duplicates, fail, rev) ==
    LET n == normalize_virtual_path(path)
    IN IF ~n.ok
       THEN [n |-> n, result |-> InvalidPath, emitted |-> << >>, seen |-> {}, calls |-> << >>]
       ELSE [n |-> n] @@ ListFilesLoop(ms, fs, n.out, extensions, allow_duplicates, fail, rev,
                          Len(ms), FALSE, [seen |-> {}, out |-> << >>], << >>)

\* the first loop of Vfs::list_dirs: the synthetic names, oldest mount first
RECURSIVE SyntheticLoop(_, _, _, _, _)
SyntheticLoop(ms, normalized, allow_duplicates, i, st) ==
    IF i > Len(ms) THEN st
    ELSE LET c == child_mount_name(normalized, ms[i].mount)
         IN SyntheticLoop(ms, normalized, allow_duplicates, i + 1,
                          IF c.ok THEN Emit(st, c.out, allow_duplicates) ELSE st)

\* the second loop of Vfs::list_dirs
RECURSIVE ListDirsLoop(_, _, _, _, _, _, _, _, _, _)
ListDirsLoop(ms, fs, normalized, allow_duplicates, fail, rev, i, matched, st, calls) ==
    IF i = 0
    THEN [result |-> IF matched \/ st.seen # {} THEN Ok ELSE NotFound,
          emitted |-> st.out, seen |-> st.seen, calls |-> calls]
    ELSE LET r == relative_to_mount(normalized, ms[i].mount)
         IN IF ~r.ok
            THEN ListDirsLoop(ms, fs, normalized, allow_duplicates, fail, rev,
                              i - 1, matched, st, calls)
            ELSE LET b == ms[i].backend
                     got == Backend_list_dirs(fs, b, r.out, fail[b], rev)
                     st2 == EmitAll(st, got.names, allow_duplicates)
                     log == Append(calls, Call(i, b, r.out, got))
                 IN IF got.res = IoError
                    THEN [result |-> IoError, emitted |-> st2.out, seen |-> st2.seen,
                          calls |-> log]
                    ELSE ListDirsLoop(ms, fs, normalized, allow_duplicates, fail, rev,
                                      i - 1, TRUE, st2, log)

\* a variant of the second loop of list_dirs that goes on to the older
\* mounts after an io_error and reports it at the end
RECURSIVE ListDirsLoopDeferred(_, _, _, _, _, _, _, _, _, _, _)
ListDirsLoopDeferred(ms, fs, normalized, allow_duplicates, fail, rev, i, matched, failed, st,
                     calls) ==
    IF i = 0
    THEN [result |-> IF failed THEN IoError
                     ELSE IF matched \/ st.seen # {} THEN Ok ELSE NotFound,
          emitted |-> st.out, seen |-> st.seen, calls |-> calls]
    ELSE LET r == relative_to_mount(normalized, ms[i].mount)
         IN IF ~r.ok
            THEN ListDirsLoopDeferred(ms, fs, normalized, allow_duplicates, fail, rev,
                                      i - 1, matched, failed, st, calls)
            ELSE LET b == ms[i].backend
                     got == Backend_list_dirs(fs, b, r.out, fail[b], rev)
                 IN ListDirsLoopDeferred(ms, fs, normalized, allow_duplicates, fail, rev,
                                         i - 1, TRUE, failed \/ got.res = IoError,
                                         EmitAll(st, got.names, allow_duplicates),
                                         Append(calls, Call(i, b, r.out, got)))

list_dirs_io_deferred(ms, fs, path, allow_duplicates, fail, rev) ==
    LET n == normalize_virtual_path(path)
    IN IF ~n.ok
       THEN [n |-> n, result |-> InvalidPath, emitted |-> << >>, seen |-> {}, calls |-> << >>]
       ELSE [n |-> n] @@ ListDirsLoopDeferred(ms, fs, n.out, allow_duplicates, fail, rev,
                             Len(ms), FALSE, FALSE,
                             SyntheticLoop(ms, n.out, allow_duplicates, 1,
                                           [seen |-> {}, out |-> << >>]),
                             << >>)

\* a variant of list_dirs whose backend names are deduplicated among
\* themselves only, not against the synthetic names
list_dirs_separate_seen(ms, fs, path, allow_duplicates, fail, rev) ==
    LET n == normalize_virtual_path(path)
        synthetic == SyntheticLoop(ms, n.out, allow_duplicates, 1, [seen |-> {}, out |-> << >>])
        r == ListDirsLoop(ms, fs, n.out, allow_duplicates, fail, rev, Len(ms), FALSE,
                          [seen |-> {}, out |-> synthetic.out], << >>)
    IN IF ~n.ok
       THEN [n |-> n, result |-> InvalidPath, emitted |-> << >>, seen |-> {}, calls |-> << >>]
       ELSE [n |-> n, result |-> IF r.result = NotFound /\ synthetic.seen # {} THEN Ok
                                 ELSE r.result,
             emitted |-> r.emitted, seen |-> r.seen \cup synthetic.seen, calls |-> r.calls]

\* Vfs::list_dirs
list_dirs(ms, fs, path, allow_duplicates, fail, rev) ==
    LET n == normalize_virtual_path(path)
    IN IF ~n.ok
       THEN [n |-> n, result |-> InvalidPath, emitted |-> << >>, seen |-> {}, calls |-> << >>]
       ELSE [n |-> n] @@ ListDirsLoop(ms, fs, n.out, allow_duplicates, fail, rev, Len(ms), FALSE,
                         SyntheticLoop(ms, n.out, allow_duplicates, 1,
                                       [seen |-> {}, out |-> << >>]),
                         << >>)

(***************************************************************************)
(* The state machine.  mounts is Vfs::mounts_, files the content of the    *)
(* backends.  The Vfs is synchronous and single-threaded: a call runs to   *)
(* completion before the caller makes the next one.  last is the call as   *)
(* the caller sees it when it returns: its arguments (path is the          *)
(* normalized path, valid whether normalization accepted the argument),    *)
(* what it returned, the names it handed to the callback and the backend   *)
(* calls it made, in order, and the mount table and the files as they were *)
(* when the call was made (before).  Between two calls last is Idle.       *)
(***************************************************************************)
Record(op, n, backend, data, exts, dup, ret, result, blob, emitted, calls) ==
    [op |-> op, valid |-> n.ok, path |-> n.out, backend |-> backend, data |-> data,
     exts |-> exts, dup |-> dup, ret |-> ret, result |-> result, blob |-> blob,
     emitted |-> emitted, calls |-> calls,
     before |-> [mounts |-> mounts, files |-> files]]

Idle ==
    [op |-> "idle", valid |-> TRUE, path |-> << >>, backend |-> NullBackend,
     data |-> NoValue, exts |-> << >>, dup |-> FALSE, ret |-> FALSE, result |-> NoValue,
     blob |-> NoValue, emitted |-> << >>, calls |-> << >>,
     before |-> [mounts |-> << >>, files |-> << >>]]

\* the arguments the calls are made with
BadPath == <<Dot, Dot>>
MountArgs == {<< >>, PA, PAB, <<Slash, "a", Slash>>, <<"a", Slash, Dot, Slash, "b">>, BadPath}
FileA == PA \o <<Slash>> \o HelloTxt
FileArgs == {FileA,
             PA \o <<Slash>> \o DataBin,
             PA \o <<Slash>> \o ExtraTxt,
             PAB \o <<Slash>> \o HelloTxt,
             <<"a", Slash, Slash>> \o HelloTxt,
             <<"a", Slash, Dot, Dot, Slash, Dot, Dot>>}
WriteArgs == {FileA, <<"b", Slash, Dot, Dot, Slash>> \o FileA, BadPath}
DirArgs == {<< >>, PA, PAB, PB, <<"a", Slash, Slash, "b", Slash>>, BadPath}
ExtArgs == {<< >>, <<<<"t">>>>}
PABX == <<"a", Slash, "b", "x">>
MountDiskArgs == {<< >>, PA, PABX, BadPath}
\* "./a:", a name with a colon below the current directory
DotSlashDrive == <<Dot, Slash, "a", Colon>>
ExistsDirArgs == DirArgs \cup {PABX, DotSlashDrive}
WriteData == "W"
WriteResults == {Ok, NotFound, IoError, NotSupported}

\* the writes a call can make, in the order of the loop: the backend and the
\* relative path of each matching mount, newest mount first, each once
RECURSIVE WriteTargets(_, _, _, _)
WriteTargets(ms, normalized, i, acc) ==
    IF i = 0 THEN acc
    ELSE LET r == relative_to_mount(normalized, ms[i].mount)
             t == <<ms[i].backend, r.out>>
         IN WriteTargets(ms, normalized, i - 1,
                         IF r.ok /\ t \notin Range(acc) THEN Append(acc, t) ELSE acc)

\* what the backends answer to these writes: one answer for a backend and a
\* relative path.  A write that comes after one answered ok or io_error is
\* never made: one answer is enough for it.
RECURSIVE AnswersFor(_, _)
AnswersFor(targets, decided) ==
    IF Len(targets) = 0 THEN {<< >>}
    ELSE IF decided
         THEN {(Head(targets) :> Ok) @@ wr : wr \in AnswersFor(Tail(targets), TRUE)}
    ELSE {(Head(targets) :> a) @@ wr :
             a \in {Ok, IoError}, wr \in AnswersFor(Tail(targets), TRUE)}
         \cup
         {(Head(targets) :> a) @@ wr :
             a \in {NotFound, NotSupported}, wr \in AnswersFor(Tail(targets), FALSE)}

WriteAnswers(ms, path) ==
    LET n == normalize_virtual_path(path)
    IN IF ~n.ok THEN {<< >>}
       ELSE AnswersFor(WriteTargets(ms, n.out, Len(ms), << >>), FALSE)

\* one backend at most fails in an enumeration
FailArgs ==
    {[b \in Backends |-> "none"]} \cup
    {[b \in Backends |-> IF b = f THEN m ELSE "none"] :
        f \in Backends, m \in FailModes \ {"none"}}

InitFiles ==
    (1 :> (HelloTxt :> "A" @@ DataBin :> "A" @@ (PB \o <<Slash>> \o HelloTxt) :> "A")) @@
    (2 :> (HelloTxt :> "B" @@ ExtraTxt :> "C"))

Init ==
    /\ mounts = << >>
    /\ files = InitFiles
    /\ last = Idle

Mount ==
    /\ last = Idle
    /\ \E path \in MountArgs, b \in Backends \cup {NullBackend} :
         \E r \in {mount(mounts, path, b)} :
           /\ Len(r.mounts) <= MaxMounts
           /\ mounts' = r.mounts
           /\ last' = Record("mount", r.n, b, NoValue, << >>,
                             FALSE, r.ret, NoValue, NoValue, << >>, << >>)
           /\ UNCHANGED files

Unmount ==
    /\ last = Idle
    /\ \E path \in MountArgs :
         \E r \in {unmount(mounts, path)} :
           /\ mounts' = r.mounts
           /\ last' = Record("unmount", r.n, NullBackend, NoValue,
                             << >>, FALSE, r.ret, NoValue, NoValue, << >>, << >>)
           /\ UNCHANGED files

ReadFile ==
    /\ last = Idle
    /\ \E path \in FileArgs :
         \E r \in {read_file(mounts, files, path)} :
           /\ last' = Record("read_file", r.n, NullBackend, NoValue,
                             << >>, FALSE, FALSE, NoValue, r.blob, << >>, r.calls)
           /\ UNCHANGED <<mounts, files>>

\* a variant of write_file that moves the mount whose backend took the write
\* to the end of the table, where the next search finds it first
WriteFilePromoting ==
    /\ last = Idle
    /\ \E path \in WriteArgs :
       \E wr \in WriteAnswers(mounts, path) :
         \E r \in {write_file(mounts, files, path, WriteData, wr)} :
           /\ files' = r.files
           /\ last' = Record("write_file", r.n, NullBackend,
                             WriteData, << >>, FALSE, FALSE, r.result, NoValue, << >>, r.calls)
           /\ mounts' = IF r.result = Ok
                        THEN LET i == r.calls[Len(r.calls)].idx
                             IN SubSeq(mounts, 1, i - 1) \o SubSeq(mounts, i + 1, Len(mounts))
                                \o <<mounts[i]>>
                        ELSE mounts

WriteFile ==
    /\ last = Idle
    /\ \E path \in WriteArgs :
       \E wr \in WriteAnswers(mounts, path) :
         \E r \in {write_file(mounts, files, path, WriteData, wr)} :
           /\ files' = r.files
           /\ last' = Record("write_file", r.n, NullBackend,
                             WriteData, << >>, FALSE, FALSE, r.result, NoValue, << >>, r.calls)
           /\ UNCHANGED mounts

ListFiles ==
    /\ last = Idle
    /\ \E path \in DirArgs, exts \in ExtArgs, dup \in BOOLEAN, fail \in FailArgs,
          rev \in BOOLEAN :
         \E r \in {list_files(mounts, files, path, exts, dup, fail, rev)} :
           /\ last' = Record("list_files", r.n, NullBackend, NoValue,
                             exts, dup, FALSE, r.result, NoValue, r.emitted, r.calls)
           /\ UNCHANGED <<mounts, files>>

ListDirs ==
    /\ last = Idle
    /\ \E path \in DirArgs, dup \in BOOLEAN, fail \in FailArgs, rev \in BOOLEAN :
         \E r \in {list_dirs(mounts, files, path, dup, fail, rev)} :
           /\ last' = Record("list_dirs", r.n, NullBackend, NoValue,
                             << >>, dup, FALSE, r.result, NoValue, r.emitted, r.calls)
           /\ UNCHANGED <<mounts, files>>

MountDisk ==
    /\ last = Idle
    /\ \E path \in MountDiskArgs, root \in Backends :
         \E r \in {mount_disk(mounts, path, root)} :
           /\ Len(r.mounts) <= MaxDiskMounts
           /\ mounts' = r.mounts
           /\ last' = Record("mount_disk", r.n, root, NoValue, << >>,
                             FALSE, r.ret, NoValue, NoValue, << >>, << >>)
           /\ UNCHANGED files

ExistsFile ==
    /\ last = Idle
    /\ \E path \in FileArgs :
         \E r \in {exists_file(mounts, files, path)} :
           /\ last' = Record("exists_file", r.n, NullBackend, NoValue,
                             << >>, FALSE, r.ret, NoValue, NoValue, << >>, r.calls)
           /\ UNCHANGED <<mounts, files>>

ExistsDir ==
    /\ last = Idle
    /\ \E path \in ExistsDirArgs :
         \E r \in {exists_dir(mounts, files, path)} :
           /\ last' = Record("exists_dir", r.n, NullBackend, NoValue,
                             << >>, FALSE, r.ret, NoValue, NoValue, << >>, r.calls)
           /\ UNCHANGED <<mounts, files>>

ReadText ==
    /\ last = Idle
    /\ \E path \in FileArgs, append_null \in BOOLEAN :
         \E r \in {read_text(mounts, files, path, append_null)} :
           /\ last' = Record("read_text", r.n, NullBackend, NoValue,
                             << >>, append_null, FALSE, NoValue, r.text, << >>, r.calls)
           /\ UNCHANGED <<mounts, files>>

\* the call has returned and the caller is about to make the next one
Return ==
    /\ last # Idle
    /\ last' = Idle
    /\ UNCHANGED <<mounts, files>>

\* mounting, unmounting, reading and writing
Next ==
    \/ Mount
    \/ Unmount
    \/ ReadFile
    \/ WriteFile
    \/ Return

Spec == Init /\ [][Next]_vars

\* mounting, unmounting and enumerating
NextList ==
    \/ Mount
    \/ Unmount
    \/ ListFiles
    \/ ListDirs
    \/ Return

SpecList == Init /\ [][NextList]_vars

\* mounting directories of the disk, unmounting and asking what exists
NextQuery ==
    \/ MountDisk
    \/ Unmount
    \/ ExistsFile
    \/ ExistsDir
    \/ ReadText
    \/ Return

SpecQuery == Init /\ [][NextQuery]_vars

\* every operation of a Vfs over directories of the disk
NextAll ==
    \/ MountDisk
    \/ Unmount
    \/ ExistsFile
    \/ ExistsDir
    \/ ReadFile
    \/ ReadText
    \/ WriteFile
    \/ ListFiles
    \/ ListDirs
    \/ Return

SpecAll == Init /\ [][NextAll]_vars

(***************************************************************************)
(* The path helpers on their own.  A text is drawn when the state machine  *)
(* starts, and one of the helpers is applied to it; last is then the call  *)
(* and what it handed back.                                                *)
(***************************************************************************)
MaxLen == 5
MaxMountLen == 3
MaxExtLen == 2
MaxTokenLen == 2

PathChars == {"a", Slash, Dot, Colon}
MountChars == {"a", Slash}

\* the texts of at most n characters of chars
RECURSIVE Texts(_, _)
Texts(chars, n) ==
    IF n = 0 THEN {<< >>}
    ELSE LET shorter == Texts(chars, n - 1)
         IN shorter \cup {Append(t, c) : t \in shorter, c \in chars}

PathTexts == Texts(PathChars, MaxLen)
MountTexts == Texts(MountChars, MaxMountLen)

\* the tokens of an extension filter, and the filters: no token, one, two
TokenChars == {"a", "A", Dot, "*"}
Tokens == Texts(TokenChars, MaxTokenLen)
Filters == {<< >>} \cup {<<t>> : t \in Tokens} \cup {<<t, u>> : t \in Tokens, u \in Tokens}

Input(text) == [op |-> "input", text |-> text]

InitPath ==
    /\ mounts = << >>
    /\ files = InitFiles
    /\ last \in {Input(t) : t \in PathTexts}

Normalize ==
    /\ last.op = "input"
    /\ \E n \in {normalize_virtual_path(last.text)} :
         last' = [op |-> "normalize_virtual_path", input |-> last.text,
                  ok |-> n.ok, out |-> n.out]
    /\ UNCHANGED <<mounts, files>>

RelativeToMount ==
    /\ last.op = "input"
    /\ \E m \in MountTexts :
         \E r \in {relative_to_mount(last.text, m)} :
           last' = [op |-> "relative_to_mount", full |-> last.text, mount |-> m,
                    ok |-> r.ok, out |-> r.out]
    /\ UNCHANGED <<mounts, files>>

\* the text is the extension of a file name
ExtensionMatches ==
    /\ last.op = "input"
    /\ Len(last.text) <= MaxExtLen
    /\ \E extensions \in Filters :
         last' = [op |-> "extension_matches", ext |-> last.text, extensions |-> extensions,
                  ret |-> extension_matches(last.text, extensions)]
    /\ UNCHANGED <<mounts, files>>

NextPath ==
    \/ Normalize
    \/ RelativeToMount
    \/ ExtensionMatches

SpecPath == InitPath /\ [][NextPath]_vars

(***************************************************************************)
(* Properties.  They are stated with the definitions below, which say what *)
(* "the prefix matches", "the relative path" and "the segment below" mean  *)
(* without the loops and helpers of the code.                              *)
(***************************************************************************)
Max(S) == CHOOSE x \in S : \A y \in S : y <= x

\* prefix m matches path p: m is the root, p itself, or p continues m after a slash
Matches(p, m) ==
    \/ m = << >>
    \/ p = m
    \/ /\ Len(p) > Len(m)
       /\ SubSeq(p, 1, Len(m) + 1) = m \o <<Slash>>

\* the part of p below the matching prefix m
RelOf(p, m) == IF m = << >> THEN p ELSE SubSeq(p, Len(m) + 2, Len(p))

\* the mounts of table ms whose prefix matches p
MatchingIn(ms, p) == {i \in 1..Len(ms) : Matches(p, ms[i].mount)}

\* the segments of a normalized path
SegsOf(p) == IF p = << >> THEN << >> ELSE Split(p)

\* non-empty prefix m lies below p: p is empty or m begins with p and a slash
LiesBelow(m, p) ==
    /\ m # << >>
    /\ \/ p = << >>
       \/ /\ Len(m) > Len(p)
          /\ SubSeq(m, 1, Len(p) + 1) = p \o <<Slash>>

\* the segment of m that follows p
SegmentBelow(m, p) == SegsOf(m)[Len(SegsOf(p)) + 1]

\* the names the backends handed over in the calls of an enumeration
RECURSIVE Flatten(_)
Flatten(calls) ==
    IF Len(calls) = 0 THEN << >> ELSE Head(calls).res.names \o Flatten(Tail(calls))

NoIoError(calls) == \A k \in 1..Len(calls) : calls[k].res.res # IoError

IsCall(op) == last.op = op /\ last.valid

\* C1: read_file(p) returns the content held by the most recently mounted
\* mount among those whose prefix matches p and whose backend has a file at
\* the relative path; a newer matching mount without the file does not stop
\* the search, and the result is absent only when no matching mount has it.
C1_ReadNewestHolder ==
    IsCall("read_file") =>
        LET holders == {i \in MatchingIn(mounts, last.path) :
                          RelOf(last.path, mounts[i].mount) \in DOMAIN files[mounts[i].backend]}
        IN IF holders = {} THEN last.blob = NoBlob
           ELSE LET i == Max(holders)
                IN last.blob = files[mounts[i].backend][RelOf(last.path, mounts[i].mount)]

\* a read served by an older mount after the newest matching mount had no such file
C1_Witness ==
    /\ IsCall("read_file")
    /\ last.blob # NoBlob
    /\ Len(last.calls) >= 2
    /\ last.calls[1].res = NoBlob

\* the scenario of C2: base backend 1, then overlay backend 2, both mounted
\* at the same prefix and both holding hello.txt, and unmount of that prefix
C2_Scenario ==
    /\ IsCall("unmount")
    /\ last.path = PA
    /\ last.before.mounts = <<MountPoint(PA, 1), MountPoint(PA, 2)>>
    /\ HelloTxt \in DOMAIN files[1]
    /\ HelloTxt \in DOMAIN files[2]

\* C2 as stated: in the scenario unmount removes the overlay mount added
\* last, and read_file of hello.txt under the prefix then returns the base
\* mount's content.
C2_UnmountRevertsToBase ==
    C2_Scenario =>
        /\ mounts = <<MountPoint(PA, 1)>>
        /\ read_file(mounts, files, FileA).blob = files[1][HelloTxt]

\* C2 as amended: in the scenario unmount removes both mounts of the prefix,
\* the base as well as the overlay, and read_file of hello.txt under the
\* prefix then returns absent.
C2_UnmountRemovesBoth ==
    C2_Scenario =>
        /\ mounts = << >>
        /\ read_file(mounts, files, FileA).blob = NoBlob

C2_Witness == C2_Scenario /\ last.ret

\* C3: unmount(p) with a valid p deletes every mount whose prefix equals
\* normalize(p) and no other mount (not the mounts nested below p), keeps the
\* surviving mounts in their order, and returns true exactly when a mount
\* was deleted; when nothing matches it returns false and the table is
\* unchanged.
C3_UnmountExact ==
    IsCall("unmount") =>
        /\ mounts = SelectSeq(last.before.mounts, LAMBDA m : m.mount # last.path)
        /\ last.ret = (\E i \in 1..Len(last.before.mounts) :
                          last.before.mounts[i].mount = last.path)
        /\ ~last.ret => mounts = last.before.mounts

\* an unmount that deleted a mount between two survivors, one of them nested
\* below the unmounted prefix
C3_Witness ==
    /\ IsCall("unmount")
    /\ last.ret
    /\ Len(last.before.mounts) = 3
    /\ last.before.mounts[2].mount = last.path
    /\ Len(mounts) = 2
    /\ \E i \in 1..2 : mounts[i].mount # last.path /\ Matches(mounts[i].mount, last.path)

\* the write in which the newest matching mount reported not_supported and
\* the older matching mount of call k reported ok
C4_Fallback(k) ==
    /\ IsCall("write_file")
    /\ Len(last.calls) >= 2
    /\ k \in 2..Len(last.calls)
    /\ last.calls[1].idx = Max(MatchingIn(mounts, last.path))
    /\ last.calls[1].res = NotSupported
    /\ last.calls[k].idx \in MatchingIn(mounts, last.path)
    /\ last.calls[k].res = Ok

\* the bytes are in the backend of the mount of call k, at the path relative to it
C4_Stored(k) ==
    LET m == mounts[last.calls[k].idx]
    IN /\ RelOf(last.path, m.mount) \in DOMAIN files[m.backend]
       /\ files[m.backend][RelOf(last.path, m.mount)] = last.data

\* C4 as stated: if the newest mount matching p reports not_supported and an
\* older matching mount reports ok, write_file returns ok, the bytes are
\* stored in the older mount's backend, and the newer mount's backend content
\* is unchanged.
C4_WriteFallsThrough ==
    \A k \in 1..Len(last.calls) :
        C4_Fallback(k) =>
            /\ last.result = Ok
            /\ C4_Stored(k)
            /\ files[last.calls[1].backend] = last.before.files[last.calls[1].backend]

\* C4 as amended: ... the bytes are stored in the older mount's backend and
\* nothing else changes in any backend, so that the newer mount's backend
\* content is unchanged unless the newer mount is bound to the very backend
\* that accepted the write.
C4_WriteFallsThroughToOlder ==
    \A k \in 1..Len(last.calls) :
        C4_Fallback(k) =>
            /\ last.result = Ok
            /\ C4_Stored(k)
            /\ \A b \in Backends :
                 \A f \in DOMAIN files[b] :
                    \/ /\ b = mounts[last.calls[k].idx].backend
                       /\ f = RelOf(last.path, mounts[last.calls[k].idx].mount)
                    \/ /\ f \in DOMAIN last.before.files[b]
                       /\ files[b][f] = last.before.files[b][f]
            /\ \A b \in Backends : DOMAIN last.before.files[b] \subseteq DOMAIN files[b]
            /\ last.calls[1].backend # last.calls[k].backend =>
                 files[last.calls[1].backend] = last.before.files[last.calls[1].backend]

\* a fallback from a mount of one backend to an older mount of another backend
C4_Witness ==
    /\ C4_Fallback(2)
    /\ last.calls[1].backend # last.calls[2].backend
    /\ last.result = Ok

\* the calls of the log are made to matching mounts, from newer to older,
\* each with the path relative to its mount, and no matching mount newer
\* than the last one asked is left out
InSearchOrder(calls, ms, p) ==
    /\ \A k \in 1..Len(calls) :
         /\ calls[k].idx \in MatchingIn(ms, p)
         /\ calls[k].backend = ms[calls[k].idx].backend
         /\ calls[k].rel = RelOf(p, ms[calls[k].idx].mount)
    /\ \A k \in 1..Len(calls) - 1 : calls[k].idx > calls[k + 1].idx
    /\ \A i \in MatchingIn(ms, p) :
         (Len(calls) = 0 \/ i > calls[Len(calls)].idx) => \E k \in 1..Len(calls) : calls[k].idx = i

\* C5: in write_file the first matching mount (newest first) whose backend
\* returns ok or io_error ends the search: that result is returned as is
\* and no mount older than it has its backend asked to write.
C5_FirstDecisiveAnswerEnds ==
    IsCall("write_file") =>
        /\ \A k \in 1..Len(last.calls) :
             /\ last.calls[k].idx \in MatchingIn(mounts, last.path)
             /\ last.calls[k].backend = mounts[last.calls[k].idx].backend
        /\ \A k \in 1..Len(last.calls) - 1 : last.calls[k].idx > last.calls[k + 1].idx
        /\ \A k \in 1..Len(last.calls) :
             last.calls[k].res \in {Ok, IoError} =>
                 /\ k = Len(last.calls)
                 /\ last.result = last.calls[k].res
        /\ \A i \in MatchingIn(mounts, last.path) :
             \/ \E k \in 1..Len(last.calls) : last.calls[k].idx = i
             \/ /\ Len(last.calls) > 0
                /\ i < last.calls[Len(last.calls)].idx
                /\ last.calls[Len(last.calls)].res \in {Ok, IoError}

\* an io_error returned although an older matching mount was there to be asked
C5_Witness ==
    /\ IsCall("write_file")
    /\ last.result = IoError
    /\ Len(last.calls) >= 1
    /\ \E i \in MatchingIn(mounts, last.path) : i < last.calls[Len(last.calls)].idx

\* C6: write_file(p, bytes) with a valid p returns not_found, and calls no
\* backend, when no mount's prefix matches p; it returns not_supported when
\* at least one mount matches and every matching mount's backend reports
\* not_supported.
C6_WriteNotFoundNotSupported ==
    IsCall("write_file") =>
        /\ MatchingIn(mounts, last.path) = {} =>
             /\ last.result = NotFound
             /\ last.calls = << >>
             /\ files = last.before.files
        /\ ( /\ MatchingIn(mounts, last.path) # {}
             /\ {last.calls[k].idx : k \in 1..Len(last.calls)} = MatchingIn(mounts, last.path)
             /\ \A k \in 1..Len(last.calls) : last.calls[k].res = NotSupported )
           => last.result = NotSupported

\* a write refused by two matching mounts; and a write that no mount of a
\* non-empty table matches
C6_Witness ==
    /\ IsCall("write_file")
    /\ last.result = NotSupported
    /\ Len(last.calls) >= 2
    /\ \E i \in 1..Len(mounts) : ~Matches(last.path, mounts[i].mount)

C6_WitnessNotFound ==
    /\ IsCall("write_file")
    /\ last.result = NotFound
    /\ Len(mounts) > 0
    /\ last.calls = << >>

\* C7: with allow_duplicates=false and no backend io_error, list_files
\* passes to emit exactly the union of the names enumerated by the backends
\* of all mounts matching p, each distinct name exactly once.
C7_ListFilesUnionOnce ==
    (IsCall("list_files") /\ ~last.dup /\ NoIoError(last.calls)) =>
        /\ InSearchOrder(last.calls, mounts, last.path)
        /\ {last.calls[k].idx : k \in 1..Len(last.calls)} = MatchingIn(mounts, last.path)
        /\ Range(last.emitted) = UNION {Range(last.calls[k].res.names) : k \in 1..Len(last.calls)}
        /\ Cardinality(Range(last.emitted)) = Len(last.emitted)

\* a listing over two mounts that both hold hello.txt and each a file of its own
C7_Witness ==
    /\ IsCall("list_files")
    /\ ~last.dup
    /\ Len(last.calls) = 2
    /\ HelloTxt \in Range(last.calls[1].res.names)
    /\ HelloTxt \in Range(last.calls[2].res.names)
    /\ Len(last.emitted) = 3

\* the names of the mount points directly below p, as a set and counted by mount
SyntheticNames(ms, p) ==
    {SegmentBelow(ms[i].mount, p) : i \in {j \in 1..Len(ms) : LiesBelow(ms[j].mount, p)}}

SyntheticCount(ms, p) == Cardinality({j \in 1..Len(ms) : LiesBelow(ms[j].mount, p)})

\* C8: for both values of allow_duplicates, when no backend returns
\* io_error, list_dirs(p, emit) returns ok if at least one mount matched p
\* or at least one synthetic mount-point name was passed to emit, and
\* not_found otherwise; it never returns not_found after having emitted a
\* name.
C8_ListDirsOkIffAnything ==
    (IsCall("list_dirs") /\ NoIoError(last.calls)) =>
        /\ (MatchingIn(mounts, last.path) # {} \/ SyntheticNames(mounts, last.path) # {})
             => last.result = Ok
        /\ (MatchingIn(mounts, last.path) = {} /\ SyntheticNames(mounts, last.path) = {})
             => last.result = NotFound
        /\ last.result = NotFound => last.emitted = << >>

\* C9: for every mount with non-empty prefix m and every valid path p such
\* that p is empty or m begins with p followed by '/', list_dirs(p) passes
\* to emit the single path segment of m that immediately follows p, whatever
\* the backends contain; a mount whose prefix equals p or does not lie below
\* p contributes no synthetic name.
C9_SyntheticMountNames ==
    IsCall("list_dirs") =>
        /\ \A i \in 1..Len(mounts) :
             LiesBelow(mounts[i].mount, last.path) =>
                 SegmentBelow(mounts[i].mount, last.path) \in Range(last.emitted)
        /\ Range(last.emitted) =
             SyntheticNames(mounts, last.path) \cup Range(Flatten(last.calls))
        /\ last.dup =>
             Len(last.emitted) = SyntheticCount(mounts, last.path) + Len(Flatten(last.calls))

\* the listing of the root with a mount at a/b and no mount that matches
\* the root: the first segment of the prefix is emitted and no backend is
\* asked
C9_Witness ==
    /\ IsCall("list_dirs")
    /\ last.path = << >>
    /\ last.calls = << >>
    /\ \E i \in 1..Len(mounts) : mounts[i].mount = PAB
    /\ PA \in Range(last.emitted)

\* C10: with a valid path p and no backend io_error, list_files returns
\* not_found exactly when no mount's prefix matches p, and ok as soon as one
\* mount matches, including when every matching backend itself reports
\* not_found or not_supported for the listing.
C10_ListFilesNotFoundIffNoMount ==
    (IsCall("list_files") /\ NoIoError(last.calls)) =>
        /\ last.result = NotFound <=> MatchingIn(mounts, last.path) = {}
        /\ MatchingIn(mounts, last.path) # {} => last.result = Ok

\* a listing that is ok although the backends of both matching mounts
\* reported not_found or not_supported
C10_Witness ==
    /\ IsCall("list_files")
    /\ last.result = Ok
    /\ Len(last.calls) = 2
    /\ \A k \in 1..2 : last.calls[k].res.res \in {NotFound, NotSupported}

\* the mounts of table ms that make directory p exist by their prefix alone:
\* the prefix is p or lies below p
ImplyingIn(ms, p) ==
    {i \in 1..Len(ms) : ms[i].mount = p \/ LiesBelow(ms[i].mount, p)}

\* a backend of a mount matching p has a directory at the relative path
HeldAsDir(ms, fs, p) ==
    \E i \in MatchingIn(ms, p) :
        Backend_exists_dir(fs, ms[i].backend, RelOf(p, ms[i].mount))

\* C11: exists_dir("") is true exactly when the mount table is not empty;
\* for every mount, exists_dir is true for its prefix and for every proper
\* slash-delimited prefix of it, and no backend is consulted; a path that
\* only shares leading characters with the prefixes of the mounts (a/b
\* against a mount at a/bx, a/bx against a mount at a/b) exists only when a
\* backend of a matching mount has the directory.
C11_ExistsDirByMounts ==
    IsCall("exists_dir") =>
        /\ last.path = << >> => /\ last.ret = (Len(mounts) > 0)
                                /\ last.calls = << >>
        /\ (last.path # << >> /\ ImplyingIn(mounts, last.path) # {}) =>
               /\ last.ret
               /\ last.calls = << >>
        /\ (last.path # << >> /\ ImplyingIn(mounts, last.path) = {}) =>
               last.ret = HeldAsDir(mounts, files, last.path)

\* a is a directory because of a mount at a/bx, and no mount matches a
C11_Witness ==
    /\ IsCall("exists_dir")
    /\ last.path = PA
    /\ \E i \in 1..Len(mounts) : mounts[i].mount = PABX
    /\ MatchingIn(mounts, PA) = {}
    /\ last.ret
    /\ last.calls = << >>

\* a/b is not a directory with a mount at a/bx alone
C11_WitnessSharedCharacters ==
    /\ IsCall("exists_dir")
    /\ last.path = PAB
    /\ Len(mounts) > 0
    /\ \A i \in 1..Len(mounts) : mounts[i].mount = PABX
    /\ ~last.ret

IsNormalize == last.op = "normalize_virtual_path"

\* walking the segments of an input from the virtual root, depth segments
\* below it: a '..' met at the root itself crosses above the root
RECURSIVE CrossesRoot(_, _)
CrossesRoot(segs, depth) ==
    IF Len(segs) = 0 THEN FALSE
    ELSE IF Head(segs) = << >> \/ Head(segs) = DotSeg THEN CrossesRoot(Tail(segs), depth)
    ELSE IF Head(segs) = DotDotSeg
         THEN depth = 0 \/ CrossesRoot(Tail(segs), depth - 1)
    ELSE CrossesRoot(Tail(segs), depth + 1)

\* C12: normalize rejects every input in which a '..' segment crosses above
\* the virtual root, inputs that start with a slash such as "/../a"
\* included; such a '..' is never dropped to give an accepted path.
C12_DotDotAboveRootRejected ==
    (IsNormalize /\ CrossesRoot(Split(last.input), 0)) => ~last.ok

\* C13: normalize rejects every input that carries a root component: a
\* drive/root name, or a leading root directory slash ("/etc/passwd").
C13_RootComponentRejected ==
    (IsNormalize /\ (HasRootName(last.input) \/ HasRootDirectory(last.input))) => ~last.ok

\* the input without its leading slashes
RECURSIVE StripLeadingSlashes(_)
StripLeadingSlashes(text) ==
    IF Len(text) > 0 /\ text[1] = Slash THEN StripLeadingSlashes(Tail(text)) ELSE text

\* C13: normalize rejects every input that carries a drive/root name.  An
\* input that only has a leading root directory slash is accepted: the slash
\* is stripped and the rest is a path relative to the virtual root, the one
\* the input without the slash normalizes to when that is accepted
\* ("/etc/passwd" normalizes to "etc/passwd").
C13_RootNameRejectedRootSlashStripped ==
    IsNormalize =>
        /\ HasRootName(last.input) => ~last.ok
        /\ (HasRootDirectory(last.input) /\ ~HasRootName(last.input)) =>
               /\ last.ok
               /\ ~HasRootDirectory(last.out)
               /\ LET bare == normalize_virtual_path(StripLeadingSlashes(last.input))
                  IN bare.ok => last.out = bare.out

\* "/a/a" is accepted as "a/a"
C13_Witness ==
    /\ IsNormalize
    /\ last.input = <<Slash, "a", Slash, "a">>
    /\ last.ok
    /\ last.out = <<"a", Slash, "a">>

\* a drive name is rejected
C13_WitnessDrive ==
    /\ IsNormalize
    /\ last.input = <<"a", Colon, Slash, "a">>
    /\ ~last.ok

\* C14: for every input p that normalize accepts, normalize(normalize(p)) is
\* accepted and equals normalize(p); the accepted output has no leading or
\* trailing slash, no empty segment and no '.' or '..' segment; "" and "."
\* both normalize to the empty path.
C14_NormalizeIdempotent ==
    IsNormalize =>
        /\ last.ok =>
               /\ normalize_virtual_path(last.out) = [ok |-> TRUE, out |-> last.out]
               /\ last.out # << >> =>
                      /\ last.out[1] # Slash
                      /\ last.out[Len(last.out)] # Slash
                      /\ \A k \in 1..Len(Split(last.out)) :
                             Split(last.out)[k] \notin {<< >>, DotSeg, DotDotSeg}
        /\ last.input \in {<< >>, DotSeg} => (last.ok /\ last.out = << >>)

\* C15: when the path given to an operation fails normalization,
\* exists_file and exists_dir return false, read_file and read_text return
\* absent, write_file, list_files and list_dirs return invalid_path; no
\* backend is invoked and emit is never called.
C15_InvalidPathNoEffect ==
    ~last.valid =>
        /\ last.op \in {"exists_file", "exists_dir"} => ~last.ret
        /\ last.op \in {"read_file", "read_text"} => last.blob = NoBlob
        /\ last.op \in {"write_file", "list_files", "list_dirs"} =>
               last.result = InvalidPath
        /\ last.op \in {"exists_file", "exists_dir", "read_file", "read_text",
                        "write_file", "list_files", "list_dirs"} =>
               /\ last.calls = << >>
               /\ last.emitted = << >>
               /\ files = last.before.files
               /\ mounts = last.before.mounts

\* list_dirs of a rejected path with a mount at the root and a mount at a,
\* which synthesize and enumerate names for every path that is accepted
C15_Witness ==
    /\ last.op = "list_dirs"
    /\ ~last.valid
    /\ \E i \in 1..Len(mounts) : mounts[i].mount = << >>
    /\ \E i \in 1..Len(mounts) : mounts[i].mount = PA
    /\ last.result = InvalidPath

\* the other six operations with a rejected path and a mount at the root
C15_WitnessOps ==
    /\ last.op \in {"exists_file", "exists_dir", "read_file", "read_text",
                    "write_file", "list_files"}
    /\ ~last.valid
    /\ \E i \in 1..Len(mounts) : mounts[i].mount = << >>

\* C16: mount(p, b) with a non-null backend and a path that normalizes
\* returns true and appends exactly one entry (normalize(p), b) at the end
\* of the mount table, also when that prefix is already mounted; the
\* entries there were stay as they are, in their order.  With a null backend
\* or a rejected path it returns false and the table is unchanged.
C16_MountAppends ==
    last.op = "mount" =>
        /\ (last.backend # NullBackend /\ last.valid) =>
               /\ last.ret
               /\ Len(mounts) = Len(last.before.mounts) + 1
               /\ SubSeq(mounts, 1, Len(last.before.mounts)) = last.before.mounts
               /\ mounts[Len(mounts)] = [mount |-> last.path, backend |-> last.backend]
        /\ (last.backend = NullBackend \/ ~last.valid) =>
               /\ ~last.ret
               /\ mounts = last.before.mounts
        /\ files = last.before.files

\* a prefix that is mounted already is mounted again with another backend
C16_Witness ==
    /\ last.op = "mount"
    /\ last.ret
    /\ \E i \in 1..Len(last.before.mounts) :
           /\ last.before.mounts[i].mount = last.path
           /\ last.before.mounts[i].backend # last.backend

\* a mount refused for its null backend, and one refused for its path
C16_WitnessRefused ==
    /\ last.op = "mount"
    /\ ~last.ret
    /\ Len(mounts) > 0
    /\ last.backend = NullBackend \/ ~last.valid

IsListing == last.op \in {"list_files", "list_dirs"} /\ last.valid

\* the synthetic names of list_dirs(p), one for every mount lying below p,
\* from the oldest mount on
RECURSIVE SyntheticFrom(_, _, _)
SyntheticFrom(ms, p, i) ==
    IF i > Len(ms) THEN << >>
    ELSE (IF LiesBelow(ms[i].mount, p) THEN <<SegmentBelow(ms[i].mount, p)>> ELSE << >>)
         \o SyntheticFrom(ms, p, i + 1)

\* a sequence of names without the second and later occurrences of a name
RECURSIVE FirstOccurrences(_, _)
FirstOccurrences(names, seen) ==
    IF Len(names) = 0 THEN << >>
    ELSE IF Head(names) \in seen THEN FirstOccurrences(Tail(names), seen)
    ELSE <<Head(names)>> \o FirstOccurrences(Tail(names), seen \cup {Head(names)})

\* the names a listing produces before deduplication: the synthetic names of
\* list_dirs, then what the backends handed over, call after call
Produced ==
    (IF last.op = "list_dirs" THEN SyntheticFrom(mounts, last.path, 1) ELSE << >>)
    \o Flatten(last.calls)

\* C17: list_files and list_dirs visit the contributing mounts in mount
\* insertion order, the oldest mount first.
C17_OldestMountFirst ==
    IsListing =>
        \A j, k \in 1..Len(last.calls) : j < k => last.calls[j].idx < last.calls[k].idx

\* C17: list_files and list_dirs visit the contributing mounts in reverse
\* insertion order, the newest mount first: with allow_duplicates=true the
\* names of a newer mount reach emit before the names of an older mount, and
\* with deduplication the occurrence kept is the one from the newest
\* contributing mount; the synthetic names of list_dirs come before all of
\* them, in insertion order.
C17_NewestMountFirst ==
    IsListing =>
        /\ \A j, k \in 1..Len(last.calls) : j < k => last.calls[j].idx > last.calls[k].idx
        /\ InSearchOrder(last.calls, mounts, last.path)
        /\ last.dup => last.emitted = Produced
        /\ ~last.dup => last.emitted = FirstOccurrences(Produced, {})

\* two mounts hand over names, the newer one first; hello.txt comes from both
\* and the one kept is in the newer mount's part of what was emitted
C17_Witness ==
    /\ IsCall("list_files")
    /\ ~last.dup
    /\ Len(last.calls) = 2
    /\ last.calls[1].idx > last.calls[2].idx
    /\ HelloTxt \in Range(last.calls[1].res.names)
    /\ HelloTxt \in Range(last.calls[2].res.names)
    /\ Len(last.calls[2].res.names) > 1
    /\ Len(last.calls[1].res.names) > 1
    /\ last.emitted[1] # HelloTxt
    /\ last.emitted[2] = HelloTxt

\* the calls of the log that were answered io_error
Failing(calls) == {k \in 1..Len(calls) : calls[k].res.res = IoError}

\* C18: when the backend of a mount matching p returns io_error during
\* list_files or list_dirs, the call returns io_error at once and no further
\* mount's backend is asked to enumerate; the names passed to emit before the
\* failure are not retracted.
C18_IoErrorAborts ==
    IsListing =>
        /\ Failing(last.calls) # {} =>
               /\ last.result = IoError
               /\ Failing(last.calls) = {Len(last.calls)}
               /\ InSearchOrder(last.calls, mounts, last.path)
               /\ Range(Produced) \subseteq Range(last.emitted)
               /\ last.dup => last.emitted = Produced
        /\ last.result = IoError => Failing(last.calls) # {}

\* the newest of two matching mounts fails after it handed over a name: the
\* older mount is not asked and the name stays emitted
C18_Witness ==
    /\ IsListing
    /\ last.result = IoError
    /\ Len(last.calls) = 1
    /\ \E i \in MatchingIn(mounts, last.path) : i < last.calls[1].idx
    /\ Len(last.calls[1].res.names) > 0
    /\ Len(last.emitted) > 0

\* the number of times a name was passed to emit
Times(name, emitted) == Cardinality({k \in 1..Len(emitted) : emitted[k] = name})

\* C19: with allow_duplicates=false, list_dirs(p) deduplicates across both
\* contributions: a name that is a synthetic mount-point segment (of one or
\* of several mounts) and also a subdirectory reported by one or more
\* backends is passed to emit exactly once, as is every other name.
C19_ListDirsOnceAcrossBoth ==
    (IsCall("list_dirs") /\ ~last.dup) =>
        \A name \in Range(Produced) : Times(name, last.emitted) = 1

\* b below a is the segment of two mounts at a/b and a subdirectory that the
\* backend of a mount at a reports
C19_Witness ==
    /\ IsCall("list_dirs")
    /\ ~last.dup
    /\ last.path = PA
    /\ Times(PB, SyntheticFrom(mounts, PA, 1)) = 2
    /\ Times(PB, Flatten(last.calls)) >= 1
    /\ Times(PB, last.emitted) = 1

\* C20: relative_to_mount(full, mount) yields full when mount is empty, the
\* empty path when full equals mount, and the part of full after mount and
\* one '/' when full starts with mount immediately followed by '/'; in every
\* other case ("a/aa" against "a/a", full shorter than mount) it reports no
\* match.
C20_RelativeToMount ==
    last.op = "relative_to_mount" =>
        IF last.mount = << >> THEN last.ok /\ last.out = last.full
        ELSE IF last.full = last.mount THEN last.ok /\ last.out = << >>
        ELSE IF /\ Len(last.full) > Len(last.mount)
                /\ SubSeq(last.full, 1, Len(last.mount) + 1) = last.mount \o <<Slash>>
             THEN last.ok /\ last.mount \o <<Slash>> \o last.out = last.full
        ELSE ~last.ok

\* "a/aa" is not below a mount at "a/a"
C20_Witness ==
    /\ last.op = "relative_to_mount"
    /\ last.full = <<"a", Slash, "a", "a">>
    /\ last.mount = <<"a", Slash, "a">>
    /\ ~last.ok

\* "a/a/a" is "a" below a mount at "a/a"
C20_WitnessBelow ==
    /\ last.op = "relative_to_mount"
    /\ last.full = <<"a", Slash, "a", Slash, "a">>
    /\ last.mount = <<"a", Slash, "a">>
    /\ last.ok
    /\ last.out = <<"a">>

\* the operations of the Vfs that are const member functions
ConstOps ==
    {"exists_file", "exists_dir", "read_file", "read_text", "write_file",
     "list_files", "list_dirs"}

\* C21: exists_file, exists_dir, read_file, read_text, write_file,
\* list_files and list_dirs leave the mount table unchanged in every
\* outcome: the same entries, in the same order, bound to the same backends
\* before and after the call; a call that changed the table is a mount or an
\* unmount.
C21_MountTableFrame ==
    /\ last.op \in ConstOps => mounts = last.before.mounts
    /\ (last.op # "idle" /\ mounts # last.before.mounts) =>
           last.op \in {"mount", "mount_disk", "unmount"}

\* a write that fell through the newest mount and was stored by an older
\* one, with the table as it was
C21_Witness ==
    /\ IsCall("write_file")
    /\ last.result = Ok
    /\ Len(last.calls) = 2
    /\ files # last.before.files
    /\ mounts = last.before.mounts

\* a token with the '.' it may lack
Dotted(token) == IF token[1] = Dot THEN token ELSE <<Dot>> \o token

\* C22: extension_matches(ext, tokens) is true for every ext when tokens is
\* empty; otherwise it is true exactly when some non-empty token, prefixed
\* with '.' if it lacks one, equals ext character by character (case
\* matters, '*' is a character like any other), so a file without extension
\* and an empty token never match a non-empty filter.
C22_ExtensionMatches ==
    last.op = "extension_matches" =>
        /\ last.extensions = << >> => last.ret
        /\ last.extensions # << >> =>
               (last.ret <=> \E i \in 1..Len(last.extensions) :
                                /\ last.extensions[i] # << >>
                                /\ Dotted(last.extensions[i]) = last.ext)
        /\ (last.extensions # << >> /\ last.ext = << >>) => ~last.ret

\* ".a" matches the second token of the filter {"A", "a"}
C22_Witness ==
    /\ last.op = "extension_matches"
    /\ last.ext = <<Dot, "a">>
    /\ last.extensions = <<<<"A">>, <<"a">>>>
    /\ last.ret

\* a file without extension does not match a filter of an empty token and "*"
C22_WitnessNoExtension ==
    /\ last.op = "extension_matches"
    /\ last.ext = << >>
    /\ last.extensions = <<<< >>, <<"*">>>>
    /\ ~last.ret

\* the mounts of table ms that can serve a read of p: the prefix matches and
\* the backend has a file at the relative path
Serving(ms, fs, p) ==
    {i \in MatchingIn(ms, p) : RelOf(p, ms[i].mount) \in DOMAIN fs[ms[i].backend]}

a_b_h == PAB \o <<Slash>> \o HelloTxt

\* C23: read and write precedence among the mounts matching a path is
\* decided by mount time alone and not by prefix length: of two mounts that
\* can serve a read, the older one never answers, whichever has the longer
\* prefix; a write asks the newest matching mount first.  With a mount at
\* a/b added first and a mount at a later, read_file("a/b/x") is answered
\* by the mount at a from the relative path b/x.
C23_PrecedenceByMountTime ==
    /\ IsCall("read_file") =>
           \A i, j \in Serving(mounts, files, last.path) :
               i < j =>
                   /\ last.blob # NoBlob
                   /\ last.calls[Len(last.calls)].idx >= j
                   /\ last.blob = files[mounts[Max(Serving(mounts, files, last.path))].backend]
                                       [RelOf(last.path,
                                              mounts[Max(Serving(mounts, files, last.path))].mount)]
    /\ (IsCall("write_file") /\ MatchingIn(last.before.mounts, last.path) # {}) =>
           last.calls[1].idx = Max(MatchingIn(last.before.mounts, last.path))

\* a/b was mounted first and a later: a/b/h.t is read from the mount at a
C23_Witness ==
    /\ IsCall("read_file")
    /\ last.path = a_b_h
    /\ mounts = <<MountPoint(PAB, 2), MountPoint(PA, 1)>>
    /\ Len(last.calls) = 1
    /\ last.calls[1].rel = PB \o <<Slash>> \o HelloTxt
    /\ last.blob = "A"

\* the reverse order: a/b/h.t is read from the mount at a/b
C23_WitnessReverse ==
    /\ IsCall("read_file")
    /\ last.path = a_b_h
    /\ mounts = <<MountPoint(PA, 1), MountPoint(PAB, 2)>>
    /\ Len(last.calls) = 1
    /\ last.calls[1].rel = HelloTxt
    /\ last.blob = "B"

\* the mounts asked in the calls of a log and the relative paths they were
\* given, in order
Asked(calls) == [k \in 1..Len(calls) |-> <<calls[k].idx, calls[k].backend, calls[k].rel>>]

\* C24: with backends whose exists_file(r) is true exactly when their
\* read_file(r) succeeds, for every table and every path p exists_file(p) is
\* true exactly when read_file(p) returns a blob, and both ask the same
\* matching mounts with the same relative paths.
C24_ExistsFileIffReadFile ==
    /\ IsCall("exists_file") =>
           LET r == read_file(mounts, files, last.path)
           IN /\ last.ret <=> r.blob # NoBlob
              /\ Asked(last.calls) = Asked(r.calls)
              /\ \A k \in 1..Len(last.calls) :
                     last.calls[k].res <=> r.calls[k].res # NoBlob
    /\ IsCall("read_file") =>
           LET e == exists_file(mounts, files, last.path)
           IN /\ last.blob # NoBlob <=> e.ret
              /\ Asked(last.calls) = Asked(e.calls)
    /\ (last.op = "exists_file" /\ ~last.valid) => ~last.ret
    /\ (last.op = "read_file" /\ ~last.valid) => last.blob = NoBlob

\* the newest matching mount has no such file and an older one has it
C24_Witness ==
    /\ IsCall("exists_file")
    /\ last.ret
    /\ Len(last.calls) = 2
    /\ ~last.calls[1].res
    /\ read_file(mounts, files, last.path).blob # NoBlob

\* no matching mount has the file
C24_WitnessAbsent ==
    /\ IsCall("exists_file")
    /\ ~last.ret
    /\ Len(last.calls) = 2
    /\ read_file(mounts, files, last.path).blob = NoBlob

\* the mounts newer than mount i that match p and hold a file at p
NewerHolders(ms, fs, p, i) == {j \in Serving(ms, fs, p) : j > i}

\* C25: after write_file(p, bytes) returned ok, a following read_file(p)
\* returns exactly bytes provided that every mount newer than the one whose
\* backend accepted the write either does not match p or holds no file at p;
\* when a newer mount that did not take the write holds a file at p, the
\* read is answered by the newest such mount with its content, and not by
\* the mount that accepted the write.
C25_ReadAfterWrite ==
    (IsCall("write_file") /\ last.result = Ok) =>
        LET accepted == last.calls[Len(last.calls)].idx
            newer == NewerHolders(mounts, files, last.path, accepted)
            r == read_file(mounts, files, last.path)
        IN /\ newer = {} =>
                  /\ r.blob = last.data
                  /\ r.calls[Len(r.calls)].idx = accepted
           /\ newer # {} =>
                  /\ r.blob = files[mounts[Max(newer)].backend]
                                   [RelOf(last.path, mounts[Max(newer)].mount)]
                  /\ r.calls[Len(r.calls)].idx = Max(newer)
                  /\ r.blob = last.before.files[mounts[Max(newer)].backend]
                                               [RelOf(last.path, mounts[Max(newer)].mount)]

\* the write created the file, and the read that follows returns the bytes
C25_Witness ==
    /\ IsCall("write_file")
    /\ last.result = Ok
    /\ read_file(last.before.mounts, last.before.files, last.path).blob = NoBlob
    /\ read_file(mounts, files, last.path).blob = last.data

\* the newest mount refused the write and holds hello.txt: the read that
\* follows returns its content, not the bytes an older mount stored
C25_WitnessNewerHolder ==
    /\ IsCall("write_file")
    /\ last.result = Ok
    /\ Len(last.calls) = 2
    /\ NewerHolders(mounts, files, last.path, last.calls[2].idx) # {}
    /\ read_file(mounts, files, last.path).blob \notin {NoBlob, last.data}

\* p is a normalized virtual path: no drive or root name, no leading or
\* trailing slash, no empty, '.' or '..' segment
NormalizedVirtualPath(p) ==
    /\ ~HasRootName(p)
    /\ p # << >> =>
           /\ p[1] # Slash
           /\ p[Len(p)] # Slash
           /\ \A k \in 1..Len(Split(p)) : Split(p)[k] \notin {<< >>, DotSeg, DotDotSeg}

\* C26: in every reachable state each prefix stored in the mount table is a
\* normalized virtual path, and every relative path handed to a backend in
\* an operation is a normalized virtual path too, so that no call addresses
\* a location above the root of a backend.
C26_PathsNormalized ==
    /\ \A i \in 1..Len(mounts) : NormalizedVirtualPath(mounts[i].mount)
    /\ \A k \in 1..Len(last.calls) : NormalizedVirtualPath(last.calls[k].rel)

\* the path of the entry called name in the directory p
ChildPath(p, name) == IF p = << >> THEN name ELSE p \o <<Slash>> \o name

\* C27: the backends of the model are self-consistent (a name listed under r
\* is a directory of the same tree); after any sequence of mount and unmount
\* operations every name n that list_dirs(p) passes to emit satisfies
\* exists_dir(p/n), the synthetic mount-point names as well as the
\* directories of the backends.
C27_ListedDirsExist ==
    IsCall("list_dirs") =>
        \A k \in 1..Len(last.emitted) :
            exists_dir(mounts, files, ChildPath(last.path, last.emitted[k])).ret

\* list_dirs("a") emitted the synthetic name b of a mount at a/b, which no
\* backend below a holds as a directory
C27_Witness ==
    /\ IsCall("list_dirs")
    /\ last.path = PA
    /\ PB \in Range(last.emitted)
    /\ PB \in Range(SyntheticFrom(mounts, PA, 1))
    /\ Times(PB, Flatten(last.calls)) = 0

\* list_dirs("") emitted b, a directory of the backend of a mount at the
\* root, while no mount point implies it
C27_WitnessBackend ==
    /\ IsCall("list_dirs")
    /\ last.path = << >>
    /\ PB \in Range(last.emitted)
    /\ SyntheticFrom(mounts, << >>, 1) = << >>
    /\ Times(PB, Flatten(last.calls)) >= 1

====
